---- MODULE Spec2Model ----
(***************************************************************************)
(* A model of PPT_Maker's document assembly: PPTXGenerator (step3_pptx_new)*)
(* with its slide builders, the run formatter of add_text_box, the table   *)
(* renderer and the options-table suppression heuristic, runs on inputs    *)
(* with null and absent fields, and the output file naming and output      *)
(* verification of the three entry points that call it.                    *)
(*                                                                         *)
(* Text is modelled as a sequence of one-character strings, so that        *)
(* str.strip, startswith, slicing, lower and split are computed as Python  *)
(* computes them.                                                          *)
(***************************************************************************)
EXTENDS Integers, Sequences, FiniteSets, TLC

VARIABLES
    \* ---- PPTXGenerator and one call of generate (step3_pptx_new.py)
    questions,        \* the list of question records handed to generate
    include_answers,  \* generate's include_answers argument
    prs,              \* self.prs.slides: the rendered slides, in order
    answer_counter,   \* self.answer_counter
    pc,               \* where the run is: "ready", "loop", "saved", "raised"
    qi,               \* index of the record the outer loop is at
    si,               \* index of the slide the inner loop is at
    calls,            \* generate calls made on this PPTXGenerator instance
    prev,             \* the previous finished run: its arguments and document
    writes,           \* self.prs.save calls made by this generate call
    \* ---- the output folder and the entry point that names the file
    files,            \* suffixes n for which <base>_<n>.pptx exists (0: <base>.pptx)
    entry,            \* the entry point running: "run_step3", "process_pdf", "step3_main"
    fpc,              \* "idle", "named", "written", "returned"
    output_file,      \* the suffix of the path handed to generate
    existed,          \* whether output_file existed when it was written
    runs,             \* entry point runs made against this folder
    returned,         \* what the entry point returned: None, or the path
    warned,           \* whether the run printed the verification warning
    \* ---- one call of a slide builder on a drawn content
    t_content,        \* the content dictionary drawn
    t_slide,          \* the slide it added to the document (None before the call)
    t_done,           \* whether the builder has run
    t_raised,         \* whether the builder raised
    \* ---- validate_questions on the parsed records (step2_question_parsing.py)
    raw_questions,    \* the records as parsed, with the keys each one holds
    validation,       \* what validate_questions returned (None before the call)
    \* ---- several PPTXGenerator instances alive in one process
    instances,        \* per instance: its input, document, counter and position
    \* ---- runs of an entry point that share one output folder at the same time
    sessions,         \* per run: where it is and the path it chose
    \* ---- the integrated pipeline of main and process_pdf
    pipeline          \* the steps started, and what each step came back with

genVars  == <<questions, include_answers, prs, answer_counter, pc, qi, si,
              calls, prev, writes>>
fileVars == <<files, entry, fpc, output_file, existed, runs, returned, warned>>
tblVars  == <<t_content, t_slide, t_done, t_raised>>
extVars  == <<raw_questions, validation, instances, sessions, pipeline>>
vars     == <<genVars, fileVars, tblVars, extVars>>

----------------------------------------------------------------------------
(* Bounds of the model.                                                    *)

\* Most records in one input list.
MaxQuestions == 2
\* Most slides in one input list, over all its records.
MaxSlides == 3
\* Most generate calls on one PPTXGenerator instance.
MaxCalls == 2
\* Largest file suffix present in the folder at the start.
MaxSuffix == 3
\* Most runs of an entry point against one folder.
MaxRuns == 2
\* Most options (and most table rows) of a drawn question content.
MaxOptions == 4
\* Most characters of a drawn text.
MaxLen == 5
\* Most records and most slides of an input list with null and absent fields.
MaxRawQuestions == 1
MaxRawSlides == 2
\* Most parsed records, and most slides in one of them, handed to validate_questions.
MaxValQuestions == 2
MaxValSlides == 2
\* Most headers, most data rows and most cells in a row of a drawn table.
MaxCols == 1
MaxRows == 2
MaxCells == 2
MaxInstSlides == 2       \* slides handed to each of two generators
MaxTableRows == 9        \* data rows of a table whose place on the slide is computed

----------------------------------------------------------------------------
(* Python str, on sequences of characters.                                 *)

Digits == {"0", "1", "2", "3", "4", "5", "6", "7", "8", "9"}
Upper  == {"A", "B", "Q", "D", "N"}
Lower  == {"a", "b", "n", "s", "x", "y", "p", "i", "g", "r", "m", "o", "e"}
Space  == {" ", "\n"}

IsDigit(c) == c \in Digits
IsAlpha(c) == c \in Upper \cup Lower
IsSpace(c) == c \in Space

LowerChar(c) ==
    CASE c = "A" -> "a"
      [] c = "B" -> "b"
      [] c = "Q" -> "q"
      [] c = "D" -> "d"
      [] c = "N" -> "n"
      [] OTHER   -> c

\* str.lower()
StrLower(s) == [i \in 1..Len(s) |-> LowerChar(s[i])]

\* s[a:b] with 0-based Python bounds, 0 <= a
Slice(s, a, b) ==
    LET hi == IF b > Len(s) THEN Len(s) ELSE b
    IN  IF a >= hi THEN <<>> ELSE SubSeq(s, a + 1, hi)

\* s[a:]
From(s, a) == Slice(s, a, Len(s))

StartsWith(s, p) == Len(s) >= Len(p) /\ SubSeq(s, 1, Len(p)) = p
EndsWith(s, p) == Len(s) >= Len(p) /\ SubSeq(s, Len(s) - Len(p) + 1, Len(s)) = p

RECURSIVE LStrip(_)
LStrip(s) == IF s /= <<>> /\ IsSpace(Head(s)) THEN LStrip(Tail(s)) ELSE s

RECURSIVE RStrip(_)
RStrip(s) ==
    IF s /= <<>> /\ IsSpace(s[Len(s)]) THEN RStrip(SubSeq(s, 1, Len(s) - 1)) ELSE s

\* str.strip()
Strip(s) == RStrip(LStrip(s))

\* str.lstrip('.')
RECURSIVE LStripDots(_)
LStripDots(s) == IF s /= <<>> /\ Head(s) = "." THEN LStripDots(Tail(s)) ELSE s

DigitChars == <<"0", "1", "2", "3", "4", "5", "6", "7", "8", "9">>

\* str(n) for n >= 0, as an f-string formats it
RECURSIVE Str(_)
Str(n) ==
    IF n < 10 THEN <<DigitChars[n + 1]>>
    ELSE Str(n \div 10) \o <<DigitChars[(n % 10) + 1]>>

\* sep.join(parts)
RECURSIVE Join(_, _)
Join(parts, sep) ==
    IF parts = <<>> THEN <<>>
    ELSE IF Len(parts) = 1 THEN parts[1]
    ELSE parts[1] \o sep \o Join(Tail(parts), sep)

RECURSIVE SplitKeepingText(_)
SplitKeepingText(s) ==
    IF \E i \in 1..Len(s) : s[i] = "\n"
    THEN LET k == CHOOSE i \in 1..Len(s) :
                      s[i] = "\n" /\ \A j \in 1..(i - 1) : s[j] /= "\n"
         IN  (IF k = 1 THEN <<>> ELSE <<SubSeq(s, 1, k - 1)>>)
             \o SplitKeepingText(SubSeq(s, k + 1, Len(s)))
    ELSE <<s>>

\* text.split('\n')
RECURSIVE SplitLines(_)
SplitLines(s) ==
    IF \E i \in 1..Len(s) : s[i] = "\n"
    THEN LET k == CHOOSE i \in 1..Len(s) :
                      s[i] = "\n" /\ \A j \in 1..(i - 1) : s[j] /= "\n"
         IN  <<SubSeq(s, 1, k - 1)>> \o SplitLines(SubSeq(s, k + 1, Len(s)))
    ELSE <<s>>

----------------------------------------------------------------------------
(* Text literals of the source.                                            *)

NL       == <<"\n">>
DotSpace == <<".", " ">>
Dot      == <<".">>
Ans      == <<"A", "n", "s">>
Q        == <<"Q">>
DiagramNote == <<"\n", "[", "D", "i", "a", "g", "r", "a", "m", "]">>

----------------------------------------------------------------------------
(* PPTXGenerator.add_text_box: one paragraph per line, a bold label run    *)
(* for a line that starts with Q<digit> or Ans<digit>.                     *)

\* the while loops that find where the number ends
RECURSIVE NumEnd(_, _)
NumEnd(s, k) == IF k < Len(s) /\ IsDigit(s[k + 1]) THEN NumEnd(s, k + 1) ELSE k

IsNumbered(ls) ==
    \/ StartsWith(ls, Q) /\ Len(ls) > 1 /\ IsDigit(ls[2])
    \/ StartsWith(ls, Ans) /\ Len(ls) > 3 /\ IsDigit(ls[4])

LabelRuns(ls, bold) ==
    LET num_end     == IF StartsWith(ls, Q) THEN NumEnd(ls, 1) ELSE NumEnd(ls, 3)
        number_part == Slice(ls, 0, num_end)
        rest        == Strip(From(ls, num_end))
        text_part   == IF StartsWith(rest, Dot) THEN Strip(LStrip(LStripDots(rest)))
                       ELSE IF StartsWith(rest, <<" ">>) THEN LStrip(rest)
                       ELSE rest
        separator   == IF StartsWith(rest, Dot) /\ text_part = <<>> THEN Dot
                       ELSE DotSpace
    IN  <<[text |-> number_part \o separator, bold |-> TRUE]>>
        \o (IF text_part /= <<>> THEN <<[text |-> text_part, bold |-> bold]>> ELSE <<>>)

\* the runs of the paragraph made for one line
ParagraphRuns(line, bold) ==
    IF IsNumbered(Strip(line)) THEN LabelRuns(Strip(line), bold)
    ELSE <<[text |-> IF Strip(line) /= <<>> THEN line ELSE <<" ">>, bold |-> bold]>>

\* the paragraphs of the text frame, each a sequence of runs
add_text_box(text, bold) ==
    LET lines == SplitLines(text)
    IN  [i \in 1..Len(lines) |-> ParagraphRuns(lines[i], bold)]

----------------------------------------------------------------------------
(* PPTXGenerator.add_table.  An optional value (a table, a shape) is a     *)
(* sequence of length 0 (None) or 1.                                       *)

None == <<>>
Some(x) == <<x>>

\* a text field or a cell whose JSON value is null: Python's None where a
\* text is expected (no text is a sequence holding this four-character string)
Null == <<"None">>

\* str(x), and {x} in an f-string: None is formatted as the text "None"
PyStr(x) == IF x = Null THEN <<"N", "o", "n", "e">> ELSE x

\* A table dictionary.  headers_key and rows_key say what the dictionary
\* holds under 'headers' and 'rows': "list" (the list in headers / rows),
\* "null" (None) or "absent" (no such key); without a list the field is <<>>,
\* which is what table.get('headers') and table.get('rows', []) are worth
\* in the truth tests that read them.
Table(headers, rows) ==
    [headers |-> headers, rows |-> rows, headers_key |-> "list", rows_key |-> "list"]

\* run.text of a header cell: str(header_text) if header_text else ""
HeaderText(header_text) == IF header_text = Null THEN <<>> ELSE header_text

CellTextStr(cell_text) == PyStr(cell_text)
\* run.text of a data cell: str(cell_text) if cell_text is not None else ""
CellText(cell_text) == IF cell_text = Null THEN <<>> ELSE cell_text

\* "if not table_data or not table_data.get('headers'): return None"
NoTable(table) == table = None \/ table[1].headers = <<>>

\* rows = table_data['rows'] is a KeyError without the key, and len(rows) a
\* TypeError on None; both come before the shape is added to the slide
add_table_raises(table) == ~NoTable(table) /\ table[1].rows_key /= "list"

\* python-pptx lengths are integers, English Metric Units
EMU_PER_INCH == 914400

\* Inches(x) = int(x * 914400), for a length given in tenths of an inch
Inches(tenths) == (tenths * EMU_PER_INCH) \div 10

SLIDE_HEIGHT == Inches(75)
\* Inches(162.3 * SCALE_Y * CORRECTION_Y)
TEXTBOX_TOP == 946081
\* Inches(510.7 * SCALE_Y * CORRECTION_HEIGHT)
TEXTBOX_HEIGHT == 3433904

SmallerOf(a, b) == IF a <= b THEN a ELSE b

\* height = Inches(min(num_rows * 0.4, 4.0))
estimated_height(num_rows) == Inches(SmallerOf(num_rows * 4, 40))

\* the grid: the header row, then one row per data row, num_cols cells each
add_table(table) ==
    IF NoTable(table) \/ add_table_raises(table) THEN None
    ELSE LET headers  == table[1].headers
             rows     == table[1].rows
             num_cols == Len(headers)
             num_rows == Len(rows) + 1
         IN  Some([num_rows |-> num_rows,
                   num_cols |-> num_cols,
                   height |-> estimated_height(num_rows),
                   cells |-> [r \in 1..num_rows |->
                                [c \in 1..num_cols |->
                                   IF r = 1 THEN HeaderText(headers[c])
                                   ELSE IF c <= Len(rows[r - 1])
                                        THEN CellText(rows[r - 1][c])
                                   ELSE <<>>]]])

----------------------------------------------------------------------------
(* PPTXGenerator.create_question_slide and the options-table heuristic.    *)

\* row i's first cell is a parenthesized letter label equal, ignoring case,
\* to the first three characters of option i
RowMatches(row, option) ==
    /\ row /= <<>>
    /\ LET first_cell   == Strip(PyStr(row[1]))
           option_label == IF Len(option) >= 3 THEN Slice(Strip(option), 0, 3) ELSE <<>>
       IN  /\ StartsWith(first_cell, <<"(">>)
           /\ Len(first_cell) >= 3
           /\ IsAlpha(first_cell[2])
           /\ EndsWith(first_cell, <<")">>)
           /\ StrLower(first_cell) = StrLower(option_label)

\* matches, after the loop over the table's rows
MatchCount(table_rows, options) ==
    Cardinality({i \in 1..Len(table_rows) : RowMatches(table_rows[i], options[i])})

\* matches >= len(options) * 0.75
ThresholdStrict(matches, n) == 4 * matches > 3 * n
ThresholdMet(matches, n) == 4 * matches >= 3 * n

HasTableAnyHeaders(content) == content.table /= None
\* has_table = table and table.get('headers')
has_table(content) == content.table /= None /\ content.table[1].headers /= <<>>

\* "if has_table and options": a non-empty options list
OptionsGuard(options) == options /= <<>>

is_options_table_any_count(content) ==
    /\ has_table(content)
    /\ OptionsGuard(content.options)
    /\ LET table_rows == content.table[1].rows
           compared   == SmallerOf(Len(table_rows), Len(content.options))
       IN  /\ table_rows /= <<>>
           /\ ThresholdMet(MatchCount(SubSeq(table_rows, 1, compared), content.options),
                           Len(content.options))

\* set inside "if has_table and options", "if table_rows and len(table_rows)
\* == len(options)" and "if matches >= len(options) * 0.75"
is_options_table(content) ==
    /\ has_table(content)
    /\ OptionsGuard(content.options)
    /\ LET table_rows == content.table[1].rows
       IN  /\ table_rows /= <<>>
           /\ Len(table_rows) = Len(content.options)
           /\ ThresholdMet(MatchCount(table_rows, content.options),
                           Len(content.options))

show_table(content) == has_table(content) /\ ~is_options_table(content)

full_question_described(content, question_number) ==
    Join(<<question_number \o DotSpace \o PyStr(content.question_text)>>
         \o (IF content.options /= <<>> THEN <<Join(content.options, NL)>> ELSE <<>>)
         \o (IF content.diagram_description /= <<>>
             THEN <<DiagramNote \o NL \o content.diagram_description>> ELSE <<>>),
         NL \o NL)
\* the text handed to add_text_box
full_question(content, question_number) ==
    Join(<<question_number \o DotSpace \o PyStr(content.question_text)>>
         \o (IF content.options /= <<>> THEN <<Join(content.options, NL)>> ELSE <<>>)
         \o (IF content.diagram_description /= <<>> THEN <<DiagramNote>> ELSE <<>>),
         NL \o NL)

\* the call of add_table at the end raises
create_question_slide_raises(content) ==
    show_table(content) /\ add_table_raises(content.table)

text_height_full(content) == TEXTBOX_HEIGHT
\* TEXTBOX_HEIGHT - Inches(1.0) if show_table, else TEXTBOX_HEIGHT
text_height(content) ==
    IF show_table(content) THEN TEXTBOX_HEIGHT - Inches(10) ELSE TEXTBOX_HEIGHT

\* table_top = top + text_height + Inches(0.2)
table_top(content) == TEXTBOX_TOP + text_height(content) + Inches(2)

\* the slide built: its text frame, whether the text box gave up the
\* reserved inch, and the table shape if one was added
create_question_slide(content, question_number) ==
    [kind        |-> "question",
     paragraphs  |-> add_text_box(full_question(content, question_number), FALSE),
     reserved    |-> show_table(content),
     top         |-> TEXTBOX_TOP,
     text_height |-> text_height(content),
     table_top   |-> IF show_table(content) THEN Some(table_top(content)) ELSE None,
     table       |-> IF show_table(content) THEN add_table(content.table) ELSE None]

----------------------------------------------------------------------------
(* PPTXGenerator.create_answer_slide and create_passage_slide.             *)

\* answer_number = f"Ans{self.answer_counter}"
AnswerNumber(counter) == Ans \o Str(counter)

CounterKept(counter) == counter
\* self.answer_counter += 1
NextCounter(counter) == counter + 1

create_answer_slide(answer_text, counter) ==
    [kind       |-> "answer",
     paragraphs |-> add_text_box(AnswerNumber(counter) \o DotSpace
                                 \o PyStr(answer_text), FALSE),
     reserved   |-> FALSE,
     table      |-> None]

\* text.split in add_text_box is an AttributeError on None, after the blank
\* slide and its empty text box were added
create_passage_slide_raises(passage_text) == passage_text = Null

create_passage_slide(passage_text) ==
    [kind       |-> "passage",
     paragraphs |-> IF create_passage_slide_raises(passage_text) THEN <<>>
                    ELSE add_text_box(passage_text, FALSE),
     reserved   |-> FALSE,
     table      |-> None]

----------------------------------------------------------------------------
(* The inputs of generate: question records as Step 2 writes them.         *)

\* content.get(..) with every default filled in
EmptyContent ==
    [question_text |-> <<>>, options |-> <<>>, table |-> None,
     diagram_description |-> <<>>, passage |-> <<>>, answer_text |-> <<>>]

SlideInputs ==
    { [slide_type |-> "passage",
       content |-> [EmptyContent EXCEPT !.passage = <<"p">>]],
      [slide_type |-> "question",
       content |-> [EmptyContent EXCEPT
                       !.question_text = <<"x">>,
                       !.table = Some(Table(<< <<"A">> >>, << << <<"1">> >> >>))]],
      [slide_type |-> "answer",
       content |-> [EmptyContent EXCEPT !.answer_text = <<"4">>]],
      \* a slide_type generate does not know (or none at all)
      [slide_type |-> "other", content |-> EmptyContent] }

QuestionNumbers == { <<"Q", "1">>, <<"Q", "7">> }

UpTo(S, n) == UNION {[1..k -> S] : k \in 0..n}

RECURSIVE SumTo(_, _)
SumTo(lens, k) == IF k = 0 THEN 0 ELSE lens[k] + SumTo(lens, k - 1)

\* the records with the given numbers, cut out of one flat sequence of slides
Records(flat, lens, nums) ==
    [i \in 1..Len(lens) |->
       [question_number |-> nums[i],
        slides |-> SubSeq(flat, SumTo(lens, i - 1) + 1, SumTo(lens, i))]]

\* every slide of the input, record by record
RECURSIVE AllSlides(_)
AllSlides(qs) == IF qs = <<>> THEN <<>> ELSE Head(qs).slides \o AllSlides(Tail(qs))

----------------------------------------------------------------------------
(* PPTXGenerator.__init__ and PPTXGenerator.generate.                      *)

AddSlideFirst(slides, slide) == <<slide>> \o slides
AddSlideTwice(slides, slide) == slides \o <<slide, slide>>
\* create_blank_slide: self.prs.slides.add_slide puts the slide last
AddSlide(slides, slide) == Append(slides, slide)

AnswersAlways(ia) == TRUE
\* "if include_answers:" under the answer branch
AnswersIncluded(ia) == ia

SharedCounter(old) == old
\* self.answer_counter = 1 in __init__
FreshCounter(old) == 1

\* the loops' position: the next slide at or after (q, s), or past the last record
RECURSIVE NextPos(_, _)
NextPos(q, s) ==
    IF q > Len(questions) THEN <<q, 1>>
    ELSE IF s <= Len(questions[q].slides) THEN <<q, s>>
    ELSE NextPos(q + 1, 1)

AtEnd == qi > Len(questions)
slide_data == questions[qi].slides[si]
question_number == questions[qi].question_number

Advance ==
    /\ qi' = NextPos(qi, si + 1)[1]
    /\ si' = NextPos(qi, si + 1)[2]

\* generator = PPTXGenerator(), by an entry point that ran before
Construct ==
    /\ pc = "saved"
    /\ prev' = Some([include_answers |-> include_answers, doc |-> prs, calls |-> calls])
    /\ prs' = <<>>
    /\ answer_counter' = FreshCounter(answer_counter)
    /\ calls' = 0
    /\ pc' = "ready"
    /\ UNCHANGED <<questions, include_answers, qi, si, writes, fileVars, tblVars, extVars>>

\* the call itself: nothing of the generator is touched before the loop
Enter(ia) ==
    /\ include_answers' = ia
    /\ qi' = NextPos(1, 1)[1]
    /\ si' = NextPos(1, 1)[2]
    /\ calls' = calls + 1
    /\ writes' = 0
    /\ pc' = "loop"
    /\ UNCHANGED <<questions, prs, answer_counter, prev, fileVars, tblVars, extVars>>

\* generator.generate(questions, output_file, include_answers) on a new generator
Generate == pc = "ready" /\ \E ia \in BOOLEAN : Enter(ia)

\* generate called again on the generator of a finished run
GenerateAgain == pc = "saved" /\ calls < MaxCalls /\ \E ia \in BOOLEAN : Enter(ia)

PassageStep ==
    /\ pc = "loop" /\ ~AtEnd
    /\ slide_data.slide_type = "passage"
    /\ ~create_passage_slide_raises(slide_data.content.passage)
    /\ prs' = AddSlide(prs, create_passage_slide(slide_data.content.passage))
    /\ Advance
    /\ UNCHANGED <<questions, include_answers, answer_counter, pc, calls, prev,
                   writes, fileVars, tblVars, extVars>>

QuestionStep ==
    /\ pc = "loop" /\ ~AtEnd
    /\ slide_data.slide_type = "question"
    /\ ~create_question_slide_raises(slide_data.content)
    /\ prs' = AddSlide(prs, create_question_slide(slide_data.content, question_number))
    /\ Advance
    /\ UNCHANGED <<questions, include_answers, answer_counter, pc, calls, prev,
                   writes, fileVars, tblVars, extVars>>

AbortWritesPartial(present, path) == present \cup {path}
\* the folder after a builder raised: the exception leaves generate before
\* the save below the loops, and nothing in generate catches it
AbortWrites(present, path) == present

\* create_passage_slide raises: the exception ends generate
PassageRaise ==
    /\ pc = "loop" /\ ~AtEnd
    /\ slide_data.slide_type = "passage"
    /\ create_passage_slide_raises(slide_data.content.passage)
    /\ prs' = AddSlide(prs, create_passage_slide(slide_data.content.passage))
    /\ files' = AbortWrites(files, output_file)
    /\ pc' = "raised"
    /\ UNCHANGED <<questions, include_answers, answer_counter, qi, si, calls, prev,
                   writes, entry, fpc, output_file, existed, runs, returned, warned,
                   tblVars, extVars>>

\* create_question_slide raises in add_table: the exception ends generate
QuestionRaise ==
    /\ pc = "loop" /\ ~AtEnd
    /\ slide_data.slide_type = "question"
    /\ create_question_slide_raises(slide_data.content)
    /\ prs' = AddSlide(prs, create_question_slide(slide_data.content, question_number))
    /\ files' = AbortWrites(files, output_file)
    /\ pc' = "raised"
    /\ UNCHANGED <<questions, include_answers, answer_counter, qi, si, calls, prev,
                   writes, entry, fpc, output_file, existed, runs, returned, warned,
                   tblVars, extVars>>

AnswerStep ==
    /\ pc = "loop" /\ ~AtEnd
    /\ slide_data.slide_type = "answer"
    /\ AnswersIncluded(include_answers)
    /\ prs' = AddSlide(prs, create_answer_slide(slide_data.content.answer_text,
                                              answer_counter))
    /\ answer_counter' = NextCounter(answer_counter)
    /\ Advance
    /\ UNCHANGED <<questions, include_answers, pc, calls, prev, writes, fileVars,
                   tblVars, extVars>>

\* an answer slide with include_answers false: skipped entirely
SkipAnswer ==
    /\ pc = "loop" /\ ~AtEnd
    /\ slide_data.slide_type = "answer"
    /\ ~AnswersIncluded(include_answers)
    /\ Advance
    /\ UNCHANGED <<questions, include_answers, prs, answer_counter, pc, calls, prev,
                   writes, fileVars, tblVars, extVars>>

\* no branch of the if/elif chain takes the slide
SkipOther ==
    /\ pc = "loop" /\ ~AtEnd
    /\ slide_data.slide_type \notin {"passage", "question", "answer"}
    /\ Advance
    /\ UNCHANGED <<questions, include_answers, prs, answer_counter, pc, calls, prev,
                   writes, fileVars, tblVars, extVars>>

\* self.prs.save(output_file), below both loops
Save ==
    /\ pc = "loop" /\ AtEnd
    /\ files' = files \cup {output_file}
    /\ writes' = writes + 1
    /\ pc' = "saved"
    /\ UNCHANGED <<questions, include_answers, prs, answer_counter, qi, si, calls,
                   prev, entry, fpc, output_file, existed, runs, returned, warned,
                   tblVars, extVars>>

FileIdle ==
    /\ files = {} /\ entry = "none" /\ fpc = "idle"
    /\ output_file = 0 /\ existed = FALSE /\ runs = 0
    /\ returned = None /\ warned = FALSE

TableIdle ==
    /\ t_content = EmptyContent /\ t_slide = None /\ t_done = FALSE
    /\ t_raised = FALSE

GenIdle ==
    /\ questions = <<>> /\ include_answers = TRUE /\ prs = <<>>
    /\ answer_counter = 1 /\ pc = "ready" /\ qi = 1 /\ si = 1
    /\ calls = 0 /\ prev = None /\ writes = 0

ExtIdle ==
    /\ raw_questions = <<>> /\ validation = None
    /\ instances = <<>> /\ sessions = <<>> /\ pipeline = None

\* a generator just constructed, and any input within the bounds
Init ==
    /\ \E r \in 0..MaxQuestions :
         \E flat \in UpTo(SlideInputs, MaxSlides) :
           \E lens \in [1..r -> 0..MaxSlides] :
             \E nums \in [1..r -> QuestionNumbers] :
               /\ SumTo(lens, r) = Len(flat)
               /\ questions = Records(flat, lens, nums)
    /\ include_answers = TRUE
    /\ prs = <<>>
    /\ answer_counter = 1
    /\ pc = "ready"
    /\ qi = 1 /\ si = 1
    /\ calls = 0
    /\ prev = None
    /\ writes = 0
    /\ FileIdle
    /\ TableIdle
    /\ ExtIdle

Next ==
    \/ Construct
    \/ Generate
    \/ PassageStep
    \/ QuestionStep
    \/ AnswerStep
    \/ SkipAnswer
    \/ SkipOther
    \/ Save

\* entry points: every run on a generator of its own
Spec == Init /\ [][Next]_vars

\* slides whose optional fields are null, absent or empty, among others
RawSlideInputs ==
    { [slide_type |-> "passage",
       content |-> [EmptyContent EXCEPT !.passage = <<"p">>]],
      [slide_type |-> "passage",
       content |-> [EmptyContent EXCEPT !.passage = Null]],
      \* "content": {}
      [slide_type |-> "question", content |-> EmptyContent],
      [slide_type |-> "question",
       content |-> [EmptyContent EXCEPT !.question_text = Null]],
      [slide_type |-> "question",
       content |-> [EmptyContent EXCEPT
                       !.question_text = <<"x">>,
                       !.table = Some(Table(<< <<"A">> >>, << << <<"1">> >> >>))]],
      [slide_type |-> "question",
       content |-> [EmptyContent EXCEPT
                       !.question_text = <<"x">>,
                       !.table = Some([Table(<< <<"A">> >>, <<>>)
                                          EXCEPT !.rows_key = "absent"])]],
      [slide_type |-> "question",
       content |-> [EmptyContent EXCEPT
                       !.question_text = <<"x">>,
                       !.table = Some([Table(<< <<"A">> >>, <<>>)
                                          EXCEPT !.rows_key = "null"])]],
      [slide_type |-> "answer",
       content |-> [EmptyContent EXCEPT !.answer_text = <<"4">>]],
      [slide_type |-> "answer", content |-> EmptyContent],
      [slide_type |-> "answer",
       content |-> [EmptyContent EXCEPT !.answer_text = Null]],
      [slide_type |-> "other", content |-> EmptyContent] }

\* one run of generate on a new generator; the output path does not exist
InitRaw ==
    /\ \E r \in 0..MaxRawQuestions :
         \E flat \in UpTo(RawSlideInputs, MaxRawSlides) :
           \E lens \in [1..r -> 0..MaxRawSlides] :
             \E nums \in [1..r -> QuestionNumbers] :
               /\ SumTo(lens, r) = Len(flat)
               /\ questions = Records(flat, lens, nums)
    /\ include_answers = TRUE
    /\ prs = <<>>
    /\ answer_counter = 1
    /\ pc = "ready"
    /\ qi = 1 /\ si = 1
    /\ calls = 0
    /\ prev = None
    /\ writes = 0
    /\ FileIdle
    /\ TableIdle
    /\ ExtIdle

NextRaw ==
    \/ Generate
    \/ PassageStep
    \/ PassageRaise
    \/ QuestionStep
    \/ QuestionRaise
    \/ AnswerStep
    \/ SkipAnswer
    \/ SkipOther
    \/ Save

SpecRaw == InitRaw /\ [][NextRaw]_vars

\* a caller that keeps its generator and calls generate again
NextReuse == Next \/ GenerateAgain

SpecReuse == Init /\ [][NextReuse]_vars

----------------------------------------------------------------------------
(* Naming the output file: get_unique_output_filename (run_step3), the     *)
(* loop of process_pdf, and the fixed name of step3's own main.  A file    *)
(* <base>_<n>.pptx is its suffix n, and <base>.pptx is 0.                  *)

\* the "while True" loop: the first counter whose file does not exist
RECURSIVE FirstFree(_, _)
FirstFree(present, counter) ==
    IF counter \notin present THEN counter ELSE FirstFree(present, counter + 1)

AboveAll(present) ==
    IF 0 \notin present THEN 0
    ELSE 1 + (CHOOSE m \in present : \A n \in present : n <= m)
get_unique_output_filename(present) ==
    IF 0 \notin present THEN 0 ELSE FirstFree(present, 1)

\* "while output_pptx.exists()": the candidate, then <base>_<counter>
RECURSIVE PdfLoop(_, _, _)
PdfLoop(present, output_pptx, counter) ==
    IF output_pptx \notin present THEN output_pptx
    ELSE PdfLoop(present, counter, counter + 1)

process_pdf_filename(present) == PdfLoop(present, 0, 1)

\* output_file = f"PPTs/{pdf_name}.pptx"
step3_main_filename(present) == 0

Name(who, path) ==
    /\ fpc \in {"idle", "returned"}
    /\ runs < MaxRuns
    /\ entry' = who
    /\ output_file' = path
    /\ fpc' = "named"
    /\ runs' = runs + 1
    /\ returned' = None
    /\ warned' = FALSE
    /\ UNCHANGED <<files, existed, genVars, tblVars, extVars>>

NameRunStep3 == Name("run_step3", get_unique_output_filename(files))

NameProcessPdf == Name("process_pdf", process_pdf_filename(files))

NameStep3Main == Name("step3_main", step3_main_filename(files))

\* generate's self.prs.save(output_file), which creates or replaces the file
WriteFile ==
    /\ fpc = "named"
    /\ existed' = (output_file \in files)
    /\ files' = files \cup {output_file}
    /\ fpc' = "written"
    /\ UNCHANGED <<entry, output_file, runs, returned, warned, genVars, tblVars, extVars>>

VerifiedOrNothing(path, opened) == IF opened THEN Some(path) ELSE None
\* "return output_file" and "return True, str(output_pptx), stats", in the
\* try block and in the except block alike
VerifiedReturn(path, opened) == Some(path)

\* "Verify output": Presentation(output_file) opens the file or raises, the
\* except block prints a warning; step3's own main returns nothing
Verify(opened) ==
    /\ fpc = "written"
    /\ warned' = ~opened
    /\ returned' = IF entry = "step3_main" THEN None
                   ELSE VerifiedReturn(output_file, opened)
    /\ fpc' = "returned"
    /\ UNCHANGED <<files, entry, output_file, existed, runs, genVars, tblVars, extVars>>

VerifyOpens == Verify(TRUE)

VerifyFails == Verify(FALSE)

\* any folder content within the bound
InitFile ==
    /\ files \in SUBSET (0..MaxSuffix)
    /\ entry = "none" /\ fpc = "idle"
    /\ output_file = 0 /\ existed = FALSE /\ runs = 0
    /\ returned = None /\ warned = FALSE
    /\ GenIdle
    /\ TableIdle
    /\ ExtIdle

NextFile ==
    \/ NameRunStep3
    \/ NameProcessPdf
    \/ NameStep3Main
    \/ WriteFile
    \/ VerifyOpens
    \/ VerifyFails

SpecFile == InitFile /\ [][NextFile]_vars

----------------------------------------------------------------------------
(* One call of create_question_slide on a content with options and a table.*)

OptionTexts ==
    { <<" ", "(", "A", ")", " ", "x">>,
      <<"a", ")", " ", "x">>,
      <<"b", ")", " ", "y">> }

RowValues ==
    { << <<"(", "a", ")">> >>,
      << <<"(", "b", ")">>, <<"y">> >>,
      <<>> }

HeaderValues == { <<>>, << <<"A">> >> }

CreateQuestionSlide ==
    /\ ~t_done
    /\ t_slide' = Some(create_question_slide(t_content, <<"Q", "1">>))
    /\ t_raised' = create_question_slide_raises(t_content)
    /\ t_done' = TRUE
    /\ UNCHANGED <<t_content, genVars, fileVars, extVars>>

InitTable ==
    /\ \E options \in UpTo(OptionTexts, MaxOptions) :
         \E table \in {None} \cup
                       { Some(Table(h, r)) :
                           h \in HeaderValues, r \in UpTo(RowValues, MaxOptions) } :
           t_content = [EmptyContent EXCEPT
                           !.question_text = <<"x">>,
                           !.options = options,
                           !.table = table]
    /\ t_slide = None
    /\ t_done = FALSE
    /\ t_raised = FALSE
    /\ GenIdle
    /\ FileIdle
    /\ ExtIdle

NextTable == CreateQuestionSlide

SpecTable == InitTable /\ [][NextTable]_vars

----------------------------------------------------------------------------
(* One call of create_passage_slide, and so of add_text_box, on any text   *)
(* within the bound: label lines in every punctuation, blank lines, line   *)
(* breaks.                                                                 *)

TextChars == {"Q", "3", ".", " ", "x", "\n"}

\* the texts over TextChars, and those after a leading "Ans"
Texts ==
    UpTo(TextChars, MaxLen) \cup {Ans \o t : t \in UpTo(TextChars, MaxLen - 2)}

\* generate's passage branch: create_passage_slide(content.get('passage', ''))
CreatePassageSlide ==
    /\ ~t_done
    /\ t_slide' = Some(create_passage_slide(t_content.passage))
    /\ t_raised' = create_passage_slide_raises(t_content.passage)
    /\ t_done' = TRUE
    /\ UNCHANGED <<t_content, genVars, fileVars, extVars>>

InitText ==
    /\ \E text \in Texts : t_content = [EmptyContent EXCEPT !.passage = text]
    /\ t_slide = None
    /\ t_done = FALSE
    /\ t_raised = FALSE
    /\ GenIdle
    /\ FileIdle
    /\ ExtIdle

NextText == CreatePassageSlide

SpecText == InitText /\ [][NextText]_vars

----------------------------------------------------------------------------
(* One call of create_question_slide on a content as the JSON of Step 2    *)
(* may hold it: the table null or absent, its keys null or absent, rows    *)
(* longer and shorter than the headers, null cells, a diagram description. *)

HeaderCells == { <<"A">>, Null }
CellValues == { <<"1">>, Null }
MissingKey == { "absent", "null" }

RowLists == UpTo(UpTo(CellValues, MaxCells), MaxRows)

RawTables ==
    {None}
    \cup { Some(Table(h, r)) : h \in UpTo(HeaderCells, MaxCols), r \in RowLists }
    \cup { Some([Table(<<>>, r) EXCEPT !.headers_key = k]) :
              k \in MissingKey, r \in RowLists }
    \cup { Some([Table(h, <<>>) EXCEPT !.rows_key = k]) :
              k \in MissingKey, h \in UpTo(HeaderCells, MaxCols) }
    \cup { Some([Table(<<>>, <<>>) EXCEPT !.headers_key = k, !.rows_key = k]) :
              k \in MissingKey }

\* "diagram_description": "[description]" or null
DiagramDescriptions == { <<>>, <<"[", "y", "]">> }

InitQuestion ==
    /\ \E options \in { <<>>, << <<"a", ")", " ", "x">> >> } :
         \E table \in RawTables :
           \E diagram \in DiagramDescriptions :
             t_content = [EmptyContent EXCEPT
                             !.question_text = <<"x">>,
                             !.options = options,
                             !.table = table,
                             !.diagram_description = diagram]
    /\ t_slide = None
    /\ t_done = FALSE
    /\ t_raised = FALSE
    /\ GenIdle
    /\ FileIdle
    /\ ExtIdle

NextQuestion == CreateQuestionSlide

SpecQuestion == InitQuestion /\ [][NextQuestion]_vars

----------------------------------------------------------------------------
(* validate_questions (Step 2) and generate on the same parsed records.    *)
(* A parsed record, and a parsed slide, is a dictionary: keys is the set   *)
(* of keys it holds, and the field of a key it does not hold is unused.    *)

RawSlide(keys, slide_type, content) ==
    [keys |-> keys, slide_type |-> slide_type, content |-> content]

RawRecord(keys, question_type, slides) ==
    [keys |-> keys, question_number |-> <<"Q", "1">>,
     question_type |-> question_type, slides |-> slides]

\* slide.get('slide_type'): None, written "none", without the key
GetSlideType(slide) ==
    IF "slide_type" \in slide.keys THEN slide.slide_type ELSE "none"

\* slide.get('content', {})
GetContent(slide) ==
    IF "content" \in slide.keys THEN slide.content ELSE EmptyContent

\* q.get('slides', [])
GetSlides(q) == IF "slides" \in q.keys THEN q.slides ELSE <<>>

\* the records as generate reads them through q.get and slide_data.get
AsRead(raws) ==
    [i \in 1..Len(raws) |->
       [question_number |-> IF "question_number" \in raws[i].keys
                            THEN raws[i].question_number ELSE <<"Q", "?">>,
        slides |-> [j \in 1..Len(GetSlides(raws[i])) |->
                      [slide_type |-> GetSlideType(GetSlides(raws[i])[j]),
                       content |-> GetContent(GetSlides(raws[i])[j])]]]]

\* the issues appended for record i, in the order of the three tests
IssuesOf(q, i) ==
    (IF "question_number" \notin q.keys
     THEN <<[question |-> i, missing |-> "question_number"]>> ELSE <<>>)
    \o (IF "question_type" \notin q.keys
        THEN <<[question |-> i, missing |-> "question_type"]>> ELSE <<>>)
    \o (IF "slides" \notin q.keys
        THEN <<[question |-> i, missing |-> "slides"]>> ELSE <<>>)

RECURSIVE AllIssues(_, _)
AllIssues(raws, i) ==
    IF i > Len(raws) THEN <<>> ELSE IssuesOf(raws[i], i) \o AllIssues(raws, i + 1)

\* the slides of q for which test holds
IsAnswerSlide(slide) == GetSlideType(slide) = "answer"
\* content.get('options') and len(content['options']) > 0
HasOptions(slide) == GetContent(slide).options /= <<>>
\* content.get('table') and content['table'] is not None
HasTable(slide) == GetContent(slide).table /= None
\* content.get('diagram_description') and content['diagram_description']
HasDiagram(slide) == GetContent(slide).diagram_description \notin {<<>>, Null}

Flag(raised) == IF raised THEN 1 ELSE 0

\* what one pass of the loop body adds to each entry of stats, for a record
\* the loop does not leave at "continue"; questions_with_answers is
\* incremented inside the loop over the slides, once for every answer slide
CountsOf(q) ==
    LET at == 1..Len(q.slides)
    IN  [total_slides            |-> Len(q.slides),
         questions_with_answers  |->
             Cardinality({j \in at : IsAnswerSlide(q.slides[j])}),
         questions_with_options  |-> Flag(\E j \in at : HasOptions(q.slides[j])),
         questions_with_tables   |-> Flag(\E j \in at : HasTable(q.slides[j])),
         questions_with_diagrams |-> Flag(\E j \in at : HasDiagram(q.slides[j])),
         passage_based           |->
             Flag("question_type" \in q.keys /\ q.question_type = "passage_based")]

\* the entry of stats after the loop over the questions
Total(raws, entry_name) ==
    SumTo([i \in 1..Len(raws) |->
             IF "slides" \in raws[i].keys THEN CountsOf(raws[i])[entry_name] ELSE 0],
          Len(raws))

\* return is_valid, issues, stats
validate_questions(raws) ==
    [is_valid |-> AllIssues(raws, 1) = <<>>,
     issues   |-> AllIssues(raws, 1),
     stats    |-> [total_questions         |-> Len(raws),
                   total_slides            |-> Total(raws, "total_slides"),
                   questions_with_answers  |-> Total(raws, "questions_with_answers"),
                   questions_with_options  |-> Total(raws, "questions_with_options"),
                   questions_with_tables   |-> Total(raws, "questions_with_tables"),
                   questions_with_diagrams |-> Total(raws, "questions_with_diagrams"),
                   passage_based           |-> Total(raws, "passage_based")]]

\* is_valid, issues, validation_stats = validate_questions(questions)
ValidateQuestions ==
    /\ validation = None
    /\ validation' = Some(validate_questions(raw_questions))
    /\ UNCHANGED <<raw_questions, instances, sessions, pipeline, genVars, fileVars,
                   tblVars>>

BothKeys == {"slide_type", "content"}

PassageSlide == RawSlide(BothKeys, "passage", [EmptyContent EXCEPT !.passage = <<"p">>])

RawSlides ==
    { RawSlide(BothKeys, "question",
               [EmptyContent EXCEPT
                   !.question_text = <<"x">>,
                   !.options = << <<"a", ")", " ", "x">> >>,
                   !.table = Some(Table(<< <<"A">> >>, << << <<"1">> >> >>)),
                   !.diagram_description = <<"[", "y", "]">>]),
      RawSlide(BothKeys, "answer", [EmptyContent EXCEPT !.answer_text = <<"4">>]),
      \* no 'slide_type'
      RawSlide({"content"}, "none", [EmptyContent EXCEPT !.answer_text = <<"4">>]),
      \* no 'content'
      RawSlide({"slide_type"}, "question", EmptyContent) }

AllKeys == {"question_number", "question_type", "slides"}

RawRecords ==
    { RawRecord(AllKeys, "regular", sl) : sl \in UpTo(RawSlides, MaxValSlides) }
    \cup { RawRecord(AllKeys, "passage_based", <<PassageSlide, sl>>) : sl \in RawSlides }
    \cup { RawRecord(AllKeys \ {k}, "regular", <<>>) : k \in AllKeys }

\* the parsed records of Step 2, before validation and generation
InitValidate ==
    /\ raw_questions \in UpTo(RawRecords, MaxValQuestions)
    /\ questions = AsRead(raw_questions)
    /\ validation = None
    /\ instances = <<>> /\ sessions = <<>> /\ pipeline = None
    /\ include_answers = TRUE
    /\ prs = <<>>
    /\ answer_counter = 1
    /\ pc = "ready"
    /\ qi = 1 /\ si = 1
    /\ calls = 0
    /\ prev = None
    /\ writes = 0
    /\ FileIdle
    /\ TableIdle

NextValidate ==
    \/ ValidateQuestions
    \/ Generate
    \/ PassageStep
    \/ QuestionStep
    \/ AnswerStep
    \/ SkipAnswer
    \/ SkipOther
    \/ Save

SpecValidate == InitValidate /\ [][NextValidate]_vars

-----------------------------------------------------------------------------
(* One call of create_question_slide on a content whose table has up to    *)
(* MaxTableRows data rows: where the text box and the table are put.       *)

GeometryRows == { << <<"1">> >>, << <<"(", "a", ")">> >> }

InitGeometry ==
    /\ \E options \in UpTo(OptionTexts, 2), h \in HeaderValues,
          n \in 0..MaxTableRows, row \in GeometryRows,
          d \in {<<>>, <<"[", "y", "]">>} :
         t_content = [EmptyContent EXCEPT
                         !.question_text = <<"x">>,
                         !.options = options,
                         !.diagram_description = d,
                         !.table = Some(Table(h, [i \in 1..n |-> row]))]
    /\ t_slide = None
    /\ t_done = FALSE
    /\ t_raised = FALSE
    /\ GenIdle
    /\ FileIdle
    /\ ExtIdle

NextGeometry == CreateQuestionSlide

SpecGeometry == InitGeometry /\ [][NextGeometry]_vars

-----------------------------------------------------------------------------
(* Two PPTXGenerator objects in one process, each inside its own call of   *)
(* generate, the iterations of the two loops interleaved.                  *)

Instances == {1, 2}

\* the attributes __init__ sets on self, and the arguments and position of
\* the object's call of generate
NewGenerator(slides, ia) ==
    [slides |-> slides, include_answers |-> ia, question_number |-> <<"Q", "1">>,
     prs |-> <<>>, answer_counter |-> FreshCounter(0), next |-> 1, saved |-> FALSE]

\* the slide one iteration of the loop builds on its own object, if any
BuiltBy(g) ==
    LET slide == g.slides[g.next]
    IN  IF slide.slide_type = "passage"
        THEN <<create_passage_slide(slide.content.passage)>>
        ELSE IF slide.slide_type = "question"
        THEN <<create_question_slide(slide.content, g.question_number)>>
        ELSE IF slide.slide_type = "answer" /\ AnswersIncluded(g.include_answers)
        THEN <<create_answer_slide(slide.content.answer_text, g.answer_counter)>>
        ELSE <<>>

BuildsAnswer(g) ==
    g.slides[g.next].slide_type = "answer" /\ AnswersIncluded(g.include_answers)

CounterAfter(g) ==
    IF BuildsAnswer(g) THEN NextCounter(g.answer_counter) ELSE g.answer_counter

SetCounterOfClass(objects, i, counter) ==
    [j \in DOMAIN objects |-> [objects[j] EXCEPT !.answer_counter = counter]]
\* self.answer_counter is an attribute of the object, set in __init__
SetCounter(objects, i, counter) ==
    [objects EXCEPT ![i].answer_counter = counter]

\* one iteration of the loop of generate on generator i
InstanceStep(i) ==
    /\ instances[i].next <= Len(instances[i].slides)
    /\ instances' =
          SetCounter([instances EXCEPT
                         ![i].prs = @ \o BuiltBy(instances[i]),
                         ![i].next = @ + 1],
                     i, CounterAfter(instances[i]))
    /\ UNCHANGED <<raw_questions, validation, sessions, pipeline,
                   genVars, fileVars, tblVars>>

\* self.prs.save(output_file) of generator i
InstanceSave(i) ==
    /\ instances[i].next > Len(instances[i].slides)
    /\ ~instances[i].saved
    /\ instances' = [instances EXCEPT ![i].saved = TRUE]
    /\ UNCHANGED <<raw_questions, validation, sessions, pipeline,
                   genVars, fileVars, tblVars>>

InstanceSlides ==
    { [slide_type |-> "passage",
       content |-> [EmptyContent EXCEPT !.passage = <<"p">>]],
      [slide_type |-> "answer",
       content |-> [EmptyContent EXCEPT !.answer_text = <<"4">>]] }

InitInstances ==
    /\ \E sl \in [Instances -> UpTo(InstanceSlides, MaxInstSlides)],
          ia \in [Instances -> BOOLEAN] :
         instances = [i \in Instances |-> NewGenerator(sl[i], ia[i])]
    /\ raw_questions = <<>> /\ validation = None
    /\ sessions = <<>> /\ pipeline = None
    /\ GenIdle
    /\ FileIdle
    /\ TableIdle

NextInstances ==
    \/ \E i \in Instances : InstanceStep(i)
    \/ \E i \in Instances : InstanceSave(i)

SpecInstances == InitInstances /\ [][NextInstances]_vars

-----------------------------------------------------------------------------
(* Two runs with the same base name at once, two web sessions of the       *)
(* Streamlit app or two command lines, on one PPTs folder.                 *)

Sessions == {1, 2}

\* the path the entry point of a run picks, from what exists at that moment
ChosenPath(who, present) ==
    IF who = "process_pdf" THEN process_pdf_filename(present)
    ELSE get_unique_output_filename(present)

\* the exists() tests of the naming code, up to the path's choice
SessionName(s) ==
    /\ sessions[s].at = "start"
    /\ sessions' = [sessions EXCEPT
                       ![s].at = "named",
                       ![s].output_file = ChosenPath(sessions[s].entry, files)]
    /\ UNCHANGED <<files, entry, fpc, output_file, existed, runs, returned, warned,
                   raw_questions, validation, instances, pipeline, genVars, tblVars>>

\* generator.generate(...): the slides are built and the file is saved
SessionSave(s) ==
    /\ sessions[s].at = "named"
    /\ files' = files \cup {sessions[s].output_file}
    /\ sessions' = [sessions EXCEPT
                       ![s].at = "written",
                       ![s].replaced = sessions[s].output_file \in files]
    /\ UNCHANGED <<entry, fpc, output_file, existed, runs, returned, warned,
                   raw_questions, validation, instances, pipeline, genVars, tblVars>>

InitSessions ==
    /\ files \in SUBSET (0..MaxSuffix)
    /\ \E who \in [Sessions -> {"run_step3", "process_pdf"}] :
         sessions = [s \in Sessions |->
                       [entry |-> who[s], at |-> "start", output_file |-> 0,
                        replaced |-> FALSE]]
    /\ entry = "none" /\ fpc = "idle"
    /\ output_file = 0 /\ existed = FALSE /\ runs = 0
    /\ returned = None /\ warned = FALSE
    /\ raw_questions = <<>> /\ validation = None
    /\ instances = <<>> /\ pipeline = None
    /\ GenIdle
    /\ TableIdle

NextSessions ==
    \/ \E s \in Sessions : SessionName(s)
    \/ \E s \in Sessions : SessionSave(s)

SpecSessions == InitSessions /\ [][NextSessions]_vars

-----------------------------------------------------------------------------
(* The integrated pipeline: main of generate_ppt_from_pdf and process_pdf  *)
(* of the Streamlit app, from the PDF to the written presentation.         *)

TruthyUnlessNone(result) == result /= None
\* "if not extracted_text", "if not questions": None, '' and [] are falsy
Truthy(result) == result /= None /\ result[1] /= <<>>

\* what extract_with_llm returns: None on an error, or the text
ExtractionResults == { None, Some(<<>>), Some(<<"t">>) }

\* what parse_questions_with_llm returns: None on an error, or the list
ParseResults ==
    { None, Some(<<>>),
      Some(<< [question_number |-> <<"Q", "1">>, slides |-> <<>>] >>) }

StartOf(who, present) ==
    [entry |-> who, at |-> "start", log |-> <<>>, before |-> present,
     extracted_text |-> None, questions |-> None, output_file |-> None]

\* an API key is needed before anything is sent to the model
Step1Result(key, text) == IF key THEN text ELSE None

\* Step 1: run_step1, or the key test and "Step 1" of process_pdf
RunStep1 ==
    /\ pipeline /= None /\ pipeline[1].at = "start"
    /\ \E key \in BOOLEAN, text \in ExtractionResults :
         LET p == pipeline[1]
             called == p.entry = "main" \/ key
             extracted == Step1Result(key, text)
         IN  pipeline' = Some([p EXCEPT
                 !.log = IF called THEN Append(@, "extraction") ELSE @,
                 !.extracted_text = extracted,
                 !.at = IF Truthy(extracted) THEN "extracted" ELSE "failed"])
    /\ UNCHANGED <<raw_questions, validation, instances, sessions,
                   genVars, fileVars, tblVars>>

\* Step 2: run_step2, or "Step 2" of process_pdf; validation issues do not
\* fail the step
RunStep2 ==
    /\ pipeline /= None /\ pipeline[1].at = "extracted"
    /\ \E key \in BOOLEAN, parsed \in ParseResults :
         LET p == pipeline[1]
             \* run_step2 asks for the key again; process_pdf has it
             questions_read == IF p.entry = "main" /\ ~key THEN None ELSE parsed
         IN  pipeline' = Some([p EXCEPT
                 !.log = Append(@, "parsing"),
                 !.questions = questions_read,
                 !.at = IF Truthy(questions_read) THEN "parsed" ELSE "failed"])
    /\ UNCHANGED <<raw_questions, validation, instances, sessions,
                   genVars, fileVars, tblVars>>

\* Step 3: run_step3, which reads the saved questions back, or "Step 3" of
\* process_pdf; generate saves the file unless a builder raised
RunStep3 ==
    /\ pipeline /= None /\ pipeline[1].at = "parsed"
    /\ \E loaded \in BOOLEAN, raises \in BOOLEAN :
         LET p == pipeline[1]
             questions_read == IF p.entry = "main" /\ ~loaded THEN None
                               ELSE p.questions
             path == ChosenPath(IF p.entry = "main" THEN "run_step3"
                                ELSE "process_pdf", files)
         IN  IF ~Truthy(questions_read)
             THEN /\ pipeline' = Some([p EXCEPT !.log = Append(@, "generation"),
                                                !.at = "failed"])
                  /\ files' = files
             ELSE IF raises
             THEN /\ pipeline' = Some([p EXCEPT !.log = Append(@, "generation"),
                                                !.at = "raised"])
                  /\ files' = AbortWrites(files, path)
             ELSE /\ pipeline' = Some([p EXCEPT !.log = Append(@, "generation"),
                                                !.output_file = Some(path),
                                                !.at = "generated"])
                  /\ files' = files \cup {path}
    /\ UNCHANGED <<entry, fpc, output_file, existed, runs, returned, warned,
                   raw_questions, validation, instances, sessions, genVars, tblVars>>

InitPipeline ==
    /\ files \in SUBSET (0..MaxSuffix)
    /\ \E who \in {"main", "process_pdf"} : pipeline = Some(StartOf(who, files))
    /\ entry = "none" /\ fpc = "idle"
    /\ output_file = 0 /\ existed = FALSE /\ runs = 0
    /\ returned = None /\ warned = FALSE
    /\ raw_questions = <<>> /\ validation = None
    /\ instances = <<>> /\ sessions = <<>>
    /\ GenIdle
    /\ TableIdle

NextPipeline ==
    \/ RunStep1
    \/ RunStep2
    \/ RunStep3

SpecPipeline == InitPipeline /\ [][NextPipeline]_vars

-----------------------------------------------------------------------------
(* What generate hands back, and the total run_step3 and the main of       *)
(* step3_pptx_new announce before they call it.                            *)

\* generate ends with prs.save and a print: it has no return statement, so
\* the call evaluates to None whatever the document and the path are
generate_result(document, path) == None

\* include_answers: every entry of 'slides'; else slide_type != 'answer'
Counted(slide, include) == include \/ slide.slide_type /= "answer"

CountedIn(q, include) ==
    Cardinality({j \in 1..Len(q.slides) : Counted(q.slides[j], include)})

\* "Will generate {total_slides} slides"
total_slides(qs, include) ==
    SumTo([i \in 1..Len(qs) |-> CountedIn(qs[i], include)], Len(qs))

----------------------------------------------------------------------------
(* What the claims speak of.                                               *)

Kinds(slides) == [i \in 1..Len(slides) |-> slides[i].kind]
Types(slide_inputs) == [i \in 1..Len(slide_inputs) |-> slide_inputs[i].slide_type]

IsAnswer(slide) == slide.kind = "answer"
AnswerSlides(slides) == SelectSeq(slides, IsAnswer)

\* the input slides the loops have gone past
Consumed ==
    IF pc = "ready" THEN <<>>
    ELSE IF AtEnd THEN AllSlides(questions)
    ELSE AllSlides(SubSeq(questions, 1, qi - 1))
         \o SubSeq(questions[qi].slides, 1, si - 1)

IsBuilt(t) == t \in {"passage", "question"} \/ (t = "answer" /\ include_answers)
CountOf(types, T) == Cardinality({i \in 1..Len(types) : types[i] \in T})

\* the text of a slide: its paragraphs, each the texts of its runs
SlideText(slide) ==
    [i \in 1..Len(slide.paragraphs) |->
       [j \in 1..Len(slide.paragraphs[i]) |-> slide.paragraphs[i][j].text]]

----------------------------------------------------------------------------
(* C1: in a run of generate on a new generator, the k-th answer slide      *)
(* emitted carries the label "Ans<k>" (its bold first run is "Ans<k>. "),  *)
(* whatever the question number of its record and whatever precedes it,    *)
(* and answer_counter is 1 plus the number of answer slides emitted: it    *)
(* grows by one per answer slide and never otherwise.                      *)
C1_AnswerLabels ==
    pc \in {"loop", "saved"} =>
        /\ answer_counter = 1 + Len(AnswerSlides(prs))
        /\ \A k \in 1..Len(AnswerSlides(prs)) :
              LET first_run == AnswerSlides(prs)[k].paragraphs[1][1]
              IN  /\ first_run.text = Ans \o Str(k) \o DotSpace
                  /\ first_run.bold

\* the second answer of a run, in a record numbered Q7, after a question slide
C1_Witness ==
    /\ pc = "saved"
    /\ Len(AnswerSlides(prs)) = 2
    /\ prs[1].kind = "question"
    /\ Len(questions) = 2
    /\ questions[2].question_number = <<"Q", "7">>
    /\ Types(questions[2].slides) = <<"answer">>

(* C2: with include_answers false every answer slide is skipped: the step  *)
(* that takes it leaves the document and answer_counter as they are, and   *)
(* the counter is still 1 when the run ends.                               *)
C2_AnswersSkipped ==
    /\ [][(pc = "loop" /\ ~AtEnd /\ ~include_answers
           /\ questions[qi].slides[si].slide_type = "answer")
          => (prs' = prs /\ answer_counter' = answer_counter)]_vars
    /\ []((pc = "saved" /\ ~include_answers) => answer_counter = 1)

C2_Witness ==
    /\ pc = "saved"
    /\ ~include_answers
    /\ "answer" \in {Types(AllSlides(questions))[i] : i \in 1..Len(AllSlides(questions))}
    /\ Len(prs) >= 1

(* C3: the slide types of the document are those of the input slides,     *)
(* record by record and in each record's order, with the skipped slides    *)
(* removed: generate never reorders.                                       *)
C3_OrderKept ==
    pc \in {"loop", "saved"} => Kinds(prs) = SelectSeq(Types(Consumed), IsBuilt)

\* one record with a passage, a question and an answer slide
C3_Witness ==
    /\ pc = "saved"
    /\ include_answers
    /\ Len(questions) = 1
    /\ Types(questions[1].slides) = <<"passage", "question", "answer">>
    /\ Kinds(prs) = <<"passage", "question", "answer">>

(* C4: every builder call adds exactly one slide, so after generate on a   *)
(* new generator the slide count is the number of passage and question     *)
(* slides of the input plus, when include_answers is true, the number of   *)
(* its answer slides.                                                      *)
C4_SlideCount ==
    pc \in {"loop", "saved"} =>
        Len(prs) = CountOf(Types(Consumed), {"passage", "question"})
                   + (IF include_answers THEN CountOf(Types(Consumed), {"answer"})
                      ELSE 0)

\* a question slide with a table shape and an answer slide: two slides
C4_Witness ==
    /\ pc = "saved"
    /\ include_answers
    /\ Types(AllSlides(questions)) = <<"question", "answer", "other">>
    /\ prs[1].table /= None
    /\ Len(prs) = 2

(* C5: every call of generate starts from fresh state: at the start of the *)
(* call answer_counter is 1 and the document holds no slides, also on the  *)
(* second call on the same PPTXGenerator.                                  *)
C5_FreshAtStart ==
    (pc = "loop" /\ <<qi, si>> = NextPos(1, 1) /\ Consumed = <<>>)
        => (answer_counter = 1 /\ prs = <<>>)

(* C6: two runs of an entry point with the same records and the same       *)
(* include_answers give documents with the same number of slides and the   *)
(* same text on every slide.                                               *)
C6_SameDocument ==
    (pc = "saved" /\ prev /= None /\ prev[1].include_answers = include_answers)
        => /\ Len(prev[1].doc) = Len(prs)
           /\ \A i \in 1..Len(prs) : SlideText(prev[1].doc[i]) = SlideText(prs[i])

C6_Witness ==
    /\ pc = "saved"
    /\ prev /= None
    /\ prev[1].include_answers /\ include_answers
    /\ Len(AnswerSlides(prs)) = 2

(* C7: the write never replaces a file: whatever the folder holds, the     *)
(* path written did not exist before the write, on every entry point       *)
(* (run_step3, process_pdf, step3's own main).                             *)
C7_NeverOverwrites == fpc = "written" => ~existed

(* C8: when <base>.pptx exists, the suffix n of the chosen <base>_<n>.pptx *)
(* is greater than every suffix present in the folder, gaps included.      *)
C8_SuffixAboveAll ==
    (fpc = "named" /\ entry \in {"run_step3", "process_pdf"} /\ 0 \in files)
        => \A n \in files : output_file > n

(* C8, amended: when <base>.pptx exists, n is the smallest n >= 1 whose    *)
(* <base>_<n>.pptx does not exist: every smaller suffix is present, and n  *)
(* is above every suffix present exactly when those have no gap below.     *)
C8_FirstFreeSuffix ==
    (fpc = "named" /\ entry \in {"run_step3", "process_pdf"} /\ 0 \in files)
        => /\ output_file >= 1
           /\ output_file \notin files
           /\ \A k \in 1..(output_file - 1) : k \in files
           /\ (\A n \in files : output_file > n)
                  <=> (\A n \in files : \A k \in 1..n : k \in files)

\* <base>.pptx and <base>_2.pptx exist, <base>_1.pptx does not: 1 is chosen
C8_Witness ==
    /\ fpc = "named"
    /\ entry = "run_step3"
    /\ files = {0, 2}
    /\ output_file = 1

\* the table of the drawn content is one the heuristic is asked about
TableAsked ==
    /\ t_done
    /\ t_content.table /= None
    /\ t_content.table[1].headers /= <<>>
    /\ Len(t_content.table[1].rows) = Len(t_content.options)

Suppressed == t_slide[1].table = None

Matching == MatchCount(t_content.table[1].rows, t_content.options)

(* C9: for a table with non-empty headers and as many rows as there are    *)
(* options, the table is suppressed if and only if the rows whose first    *)
(* cell is the label of the option at the same index are at least 75% of   *)
(* the options.                                                            *)
C9_SuppressedIffThreshold ==
    TableAsked => (Suppressed <=> 4 * Matching >= 3 * Len(t_content.options))

(* C9, amended: the same, for a content with at least one option; with no  *)
(* options (and so no rows) the table is rendered.                         *)
C9_SuppressedIffThresholdSomeOptions ==
    TableAsked =>
        IF t_content.options = <<>> THEN ~Suppressed
        ELSE Suppressed <=> 4 * Matching >= 3 * Len(t_content.options)

\* three of four rows match, exactly 75%: suppressed
C9_Witness ==
    /\ TableAsked
    /\ Len(t_content.options) = 4
    /\ Matching = 3
    /\ Suppressed

(* C10: options written "a) x", "b) y" with a table whose first-column     *)
(* cells are "(a)", "(b)", one row per option in the same order: the table *)
(* is suppressed, the slide has no table shape.                            *)
C10_ScenarioD ==
    (/\ t_done
     /\ t_content.options = << <<"a", ")", " ", "x">>, <<"b", ")", " ", "y">> >>
     /\ t_content.table /= None
     /\ t_content.table[1].headers /= <<>>
     /\ t_content.table[1].rows = << << <<"(", "a", ")">> >>,
                                     << <<"(", "b", ")">>, <<"y">> >> >>)
        => Suppressed

----------------------------------------------------------------------------
(* The text frame of add_text_box, against the text it was given.          *)

\* the paragraphs of the slide built from the drawn text
Paragraphs == t_slide[1].paragraphs

LineBreaks(s) == {k \in 1..Len(s) : s[k] = "\n"}

\* where the j-th line break of s stands (0 before the text, Len + 1 after)
BreakAt(s, j) ==
    IF j = 0 THEN 0
    ELSE IF j > Cardinality(LineBreaks(s)) THEN Len(s) + 1
    ELSE CHOOSE k \in LineBreaks(s) :
             Cardinality({b \in LineBreaks(s) : b <= k}) = j

\* the i-th line of s: what stands between two consecutive line breaks
LineAt(s, i) == SubSeq(s, BreakAt(s, i - 1) + 1, BreakAt(s, i) - 1)

\* the texts of a paragraph's runs, one after the other
RECURSIVE ParagraphText(_)
ParagraphText(rs) ==
    IF rs = <<>> THEN <<>> ELSE Head(rs).text \o ParagraphText(Tail(rs))

IsInk(c) == c \notin {" ", "."}
\* a text without its blanks and periods
Ink(s) == SelectSeq(s, IsInk)

(* C11: the text frame has one paragraph per line of the text, that is the *)
(* number of line breaks plus one, in the order of the lines: paragraph i  *)
(* has at least one run and carries the characters of line i, so no line   *)
(* is dropped, be it empty, blank or a label line.                         *)
C11_ParagraphPerLine ==
    t_done =>
        /\ Len(Paragraphs) = Cardinality(LineBreaks(t_content.passage)) + 1
        /\ \A i \in 1..Len(Paragraphs) :
              /\ Paragraphs[i] /= <<>>
              /\ Ink(ParagraphText(Paragraphs[i])) = Ink(LineAt(t_content.passage, i))

\* a text line, an empty line and a label line
C11_Witness ==
    /\ t_done
    /\ t_content.passage = <<"x", "\n", "\n", "Q", "3">>
    /\ Len(Paragraphs) = 3

\* a numbered-label line: trimmed, it starts with Q, or with Ans, and a digit
LabelLine(line) ==
    LET ls == Strip(line)
    IN  \/ Len(ls) >= 2 /\ ls[1] = "Q" /\ IsDigit(ls[2])
        \/ Len(ls) >= 4 /\ SubSeq(ls, 1, 3) = Ans /\ IsDigit(ls[4])

\* the label of a label line: Q or Ans and every digit that follows
LabelOf(line) ==
    LET ls == Strip(line)
        k  == IF ls[1] = "Q" THEN 1 ELSE 3
        n  == CHOOSE m \in (k + 1)..Len(ls) :
                  /\ \A j \in (k + 1)..m : IsDigit(ls[j])
                  /\ (m = Len(ls) \/ ~IsDigit(ls[m + 1]))
    IN  SubSeq(ls, 1, n)

\* what follows the label, trimmed
AfterLabel(line) == Strip(From(Strip(line), Len(LabelOf(line))))

\* what follows the label and one period, if there is one, trimmed
AfterOnePeriod(line) ==
    IF StartsWith(AfterLabel(line), Dot) THEN Strip(Tail(AfterLabel(line)))
    ELSE AfterLabel(line)

LabelLines == {i \in 1..Len(Paragraphs) : LabelLine(LineAt(t_content.passage, i))}

(* C12: for every numbered-label line, however it is punctuated ("Q3 x",   *)
(* "Q3. x", "Q3x"), the first run is the label followed by ". ", in bold,  *)
(* and the trimmed remainder, if any, is a second run at the default       *)
(* weight and the last run.  (A remainder after two periods or more is     *)
(* left to C13.)                                                           *)
C12_LabelRunThenRemainder ==
    t_done =>
        \A i \in LabelLines :
            LET line  == LineAt(t_content.passage, i)
                first == [text |-> LabelOf(line) \o DotSpace, bold |-> TRUE]
            IN  /\ Paragraphs[i][1] = first
                /\ ~StartsWith(AfterLabel(line), <<".", ".">>) =>
                       Paragraphs[i] =
                           IF AfterOnePeriod(line) = <<>> THEN <<first>>
                           ELSE <<first, [text |-> AfterOnePeriod(line), bold |-> FALSE]>>

(* C13: the label run of a label line ends with exactly one ". ", also     *)
(* when nothing follows the label ("Q3", "Q3.", "Ans3. "), and when the    *)
(* remainder begins with a period only that period and the whitespace      *)
(* after it are consumed: further periods stay in the text run.            *)
C13_OneCanonicalSeparator ==
    t_done =>
        \A i \in LabelLines :
            LET line == LineAt(t_content.passage, i)
            IN  /\ Paragraphs[i][1].text = LabelOf(line) \o DotSpace
                /\ ParagraphText(Tail(Paragraphs[i])) = AfterOnePeriod(line)

\* no table to render: the table is null or absent, or its headers are
\* empty, null or absent
NoTableGiven ==
    \/ t_content.table = None
    \/ t_content.table[1].headers_key /= "list"
    \/ t_content.table[1].headers = <<>>

(* C14: when the table is null or absent, or its headers are empty, null   *)
(* or absent, add_table gives no table and nothing raises: the question    *)
(* slide is built with its text and a text block of full height, without   *)
(* a table shape.                                                          *)
C14_NoHeadersNoTable ==
    (t_done /\ NoTableGiven) =>
        /\ ~t_raised
        /\ add_table(t_content.table) = None
        /\ t_slide[1].table = None
        /\ ~t_slide[1].reserved
        /\ Paragraphs[1][1] = [text |-> <<"Q", "1", ".", " ">>, bold |-> TRUE]

\* a table with rows and no 'headers' key
C14_Witness ==
    /\ t_done
    /\ t_content.table /= None
    /\ t_content.table[1].headers_key = "absent"
    /\ Len(t_content.table[1].rows) = 2
    /\ t_slide[1].table = None

\* the table of the drawn content has headers and a list of rows
TableGiven ==
    /\ t_done
    /\ ~NoTableGiven
    /\ t_content.table[1].rows_key = "list"

(* C15: a table with headers and rows is rendered without a fault as a     *)
(* grid of len(rows) + 1 rows and len(headers) columns; in every data row  *)
(* the cell of column c is the row's c-th value, the empty text when the   *)
(* row is shorter or the value is null, and the values past the last       *)
(* header are dropped.                                                     *)
C15_GridOfRowsAndHeaders ==
    (TableGiven /\ show_table(t_content)) =>
        LET headers == t_content.table[1].headers
            rows    == t_content.table[1].rows
            grid    == t_slide[1].table[1]
        IN  /\ ~t_raised
            /\ t_slide[1].table /= None
            /\ grid.num_rows = Len(rows) + 1
            /\ grid.num_cols = Len(headers)
            /\ Len(grid.cells) = Len(rows) + 1
            /\ \A r \in 1..Len(rows) :
                  /\ Len(grid.cells[r + 1]) = Len(headers)
                  /\ \A c \in 1..Len(headers) :
                        grid.cells[r + 1][c] =
                            IF c > Len(rows[r]) THEN <<>>
                            ELSE IF rows[r][c] = Null THEN <<>>
                            ELSE rows[r][c]

\* one header; a row of a null and a second value, and an empty row
C15_Witness ==
    /\ TableGiven
    /\ t_content.table[1].headers = << <<"A">> >>
    /\ t_content.table[1].rows = << <<Null, <<"1">> >>, <<>> >>
    /\ t_slide[1].table /= None
    /\ t_slide[1].table[1].cells[2] = << <<>> >>

NoneText == <<"N", "o", "n", "e">>

\* some run of the slide ends with the text "None" (no input text does)
ShowsNone(slide) ==
    \E i \in 1..Len(slide.paragraphs) :
        \E j \in 1..Len(slide.paragraphs[i]) :
            EndsWith(slide.paragraphs[i][j].text, NoneText)

(* C16: whichever of question_text, options, table, the table's rows,      *)
(* diagram_description, passage and answer_text are absent, null or empty, *)
(* generate does not raise: every passage, question and included answer    *)
(* slide gone past is in the document, and the missing piece is an empty   *)
(* text or is not rendered.                                                *)
C16_MissingFieldsTolerated ==
    /\ pc /= "raised"
    /\ pc \in {"loop", "saved"} =>
           /\ Kinds(prs) = SelectSeq(Types(Consumed), IsBuilt)
           /\ \A i \in 1..Len(prs) : ~ShowsNone(prs[i])

\* the text the frame shows: the paragraphs' texts joined by line breaks
FrameText == Join([i \in 1..Len(Paragraphs) |-> ParagraphText(Paragraphs[i])], NL)

(* C17: the passage slide shows the passage verbatim: the runs of each     *)
(* paragraph, concatenated, and the paragraphs, joined by line breaks,     *)
(* give back the passage unchanged, also when one of its lines begins      *)
(* with Q<digits> or Ans<digits>.                                          *)
C17_PassageVerbatim == t_done => FrameText = t_content.passage

\* the paragraphs that are the one line "[Diagram]" at the default weight
DiagramLines ==
    {i \in 1..Len(Paragraphs) :
        Paragraphs[i] = <<[text |-> Tail(DiagramNote), bold |-> FALSE]>>}

Contains(s, sub) ==
    \E k \in 0..(Len(s) - Len(sub)) : SubSeq(s, k + 1, k + Len(sub)) = sub

(* C18: with a non-empty diagram_description the question slide has        *)
(* exactly one line "[Diagram]" and no run of the slide contains the       *)
(* description; without one (absent, null or empty) it has no such line.   *)
C18_DiagramPlaceholder ==
    t_done =>
        IF t_content.diagram_description /= <<>>
        THEN /\ Cardinality(DiagramLines) = 1
             /\ \A i \in 1..Len(Paragraphs) :
                   \A j \in 1..Len(Paragraphs[i]) :
                       ~Contains(Paragraphs[i][j].text, t_content.diagram_description)
        ELSE DiagramLines = {}

\* a description, after the options: the last line is the placeholder
C18_Witness ==
    /\ t_done
    /\ t_content.diagram_description = <<"[", "y", "]">>
    /\ t_content.options /= <<>>
    /\ DiagramLines = {Len(Paragraphs)}

(* C19: the document is written once in a run of generate, and only after  *)
(* every slide was gone past: no write before the loops end, exactly one   *)
(* when the run is over, and none at all, so no file, in a run that a      *)
(* builder aborted by raising.                                             *)
C19_SavedOnceAtEnd ==
    /\ pc \in {"ready", "loop"} => (writes = 0 /\ output_file \notin files)
    /\ pc = "raised" => (writes = 0 /\ output_file \notin files)
    /\ pc = "saved" =>
           /\ writes = 1
           /\ output_file \in files
           /\ AtEnd
           /\ Kinds(prs) = SelectSeq(Types(AllSlides(questions)), IsBuilt)

\* a run that built one slide and then aborted in add_table
C19_Witness ==
    /\ pc = "raised"
    /\ Kinds(prs) = <<"passage", "question">>
    /\ prs[2].table = None
    /\ files = {}

(* C20: when opening the written file to count its slides fails, run_step3 *)
(* and process_pdf only warn: they return the path written, as a success,  *)
(* and the file is still there.                                            *)
C20_VerifyFailureOnlyWarns ==
    (fpc = "returned" /\ warned /\ entry \in {"run_step3", "process_pdf"})
        => (returned = Some(output_file) /\ output_file \in files)

C20_Witness ==
    /\ fpc = "returned"
    /\ warned
    /\ entry = "process_pdf"
    /\ output_file = 1
    /\ returned = Some(1)
    /\ 1 \in files

\* the slides of the parsed records that lack slide_type or content
SlideDefects ==
    {<<i, j>> \in (1..Len(raw_questions)) \X (1..MaxValSlides) :
        /\ "slides" \in raw_questions[i].keys
        /\ j <= Len(raw_questions[i].slides)
        /\ raw_questions[i].slides[j].keys /= BothKeys}

\* the parsed records that lack slides
RecordDefects == {i \in 1..Len(raw_questions) : "slides" \notin raw_questions[i].keys}

IssueQuestions ==
    {validation[1].issues[k].question : k \in 1..Len(validation[1].issues)}

\* the slides generate is to render: those with a slide_type it knows
WellFormedTypes ==
    SelectSeq(Types(AllSlides(AsRead(raw_questions))), IsBuilt)

(* C21: a record with no slides key, and a slide with no slide_type or no  *)
(* content, is each reported by validate_questions (an issue for that      *)
(* question, and is_valid false), and none makes generate raise: the       *)
(* document of the finished run holds every slide that has a slide_type    *)
(* generate renders.                                                       *)
C21_DefectsReportedNotFatal ==
    /\ validation /= None =>
           /\ \A i \in RecordDefects : i \in IssueQuestions
           /\ \A d \in SlideDefects : d[1] \in IssueQuestions
           /\ (RecordDefects /= {} \/ SlideDefects /= {}) => ~validation[1].is_valid
    /\ pc /= "raised"
    /\ pc = "saved" => Kinds(prs) = WellFormedTypes

(* C28: in the statistics of validate_questions, questions_with_answers,   *)
(* questions_with_options, questions_with_tables and                       *)
(* questions_with_diagrams each count questions: none exceeds              *)
(* total_questions, also for a question with several answer slides.        *)
C28_StatsCountQuestions ==
    validation /= None =>
        LET stats == validation[1].stats
        IN  /\ stats.questions_with_answers <= stats.total_questions
            /\ stats.questions_with_options <= stats.total_questions
            /\ stats.questions_with_tables <= stats.total_questions
            /\ stats.questions_with_diagrams <= stats.total_questions

(* C22: generate returns to its caller the final slide count and the path *)
(* it wrote, the count being the number of slides of the document at the   *)
(* time it was saved.                                                      *)
C22_ReturnsCountAndPath ==
    pc = "saved" =>
        generate_result(prs, output_file) = Some(<<Len(prs), output_file>>)

(* C27: for either value of include_answers the total announced before     *)
(* generation equals the number of slides the finished run put in the      *)
(* document, also when a slide has a missing or unrecognized slide_type.   *)
C27_AnnouncedIsGenerated ==
    pc = "saved" => total_slides(questions, include_answers) = Len(prs)

\* a table with headers whose rows are not one per option
CountsDiffer ==
    /\ t_done
    /\ t_content.table /= None
    /\ t_content.table[1].headers /= <<>>
    /\ \/ Len(t_content.table[1].rows) /= Len(t_content.options)
       \/ t_content.options = <<>>

(* C24: when the table's row count differs from the option count, or there *)
(* are no options, a table with non-empty headers is never suppressed,     *)
(* whatever its first-column cells hold: the slide has the table shape.    *)
C24_NeverSuppressedOnCountMismatch ==
    CountsDiffer => (~Suppressed /\ t_slide[1].table[1].num_cols > 0)

\* two rows, the first one carrying the label of the only option
C24_Witness ==
    /\ CountsDiffer
    /\ Len(t_content.options) = 1
    /\ Len(t_content.table[1].rows) = 2
    /\ RowMatches(t_content.table[1].rows[1], t_content.options[1])
    /\ ~Suppressed

(* C25: the text block of a question slide is the template height less     *)
(* 1.0 in exactly when the slide shows a table, and the table's top is     *)
(* then the text top plus that reduced height plus 0.2 in; otherwise the   *)
(* text block has the full template height and there is no table shape.    *)
C25_TextHeightAndTableTop ==
    t_done =>
        LET slide == t_slide[1]
        IN  IF slide.table /= None
            THEN /\ slide.text_height = TEXTBOX_HEIGHT - 914400
                 /\ slide.table_top =
                        Some(slide.top + (TEXTBOX_HEIGHT - 914400) + 182880)
            ELSE /\ slide.text_height = TEXTBOX_HEIGHT
                 /\ slide.table_top = None

C25_Witness ==
    /\ t_done
    /\ t_slide[1].table /= None
    /\ t_slide[1].text_height = 2519504
    /\ t_slide[1].table_top = Some(3648465)

(* C26: every table shown lies on the slide: its top plus its height,      *)
(* min((rows + 1) x 0.4 in, 4.0 in), is at most the slide height of        *)
(* 7.5 in, in integer EMU.                                                 *)
C26_TableWithinSlide ==
    (t_done /\ t_slide[1].table /= None) =>
        t_slide[1].table_top[1] + t_slide[1].table[1].height <= SLIDE_HEIGHT

\* generator g after k iterations of a run nothing else takes part in
RECURSIVE Alone(_, _)
Alone(g, k) ==
    IF k = 0 THEN NewGenerator(g.slides, g.include_answers)
    ELSE LET before == Alone(g, k - 1)
         IN  [before EXCEPT !.prs = @ \o BuiltBy(before),
                            !.answer_counter = CounterAfter(before),
                            !.next = @ + 1]

MidRun(g) == g.next > 1 /\ g.next <= Len(g.slides)

(* C23: two runs on distinct PPTXGenerator objects whose builder calls     *)
(* interleave do not affect each other: at every point each run's slide    *)
(* sequence, with its answer labels, and its answer_counter are those of   *)
(* the same run executed alone up to the same iteration.                   *)
C23_InstancesIsolated ==
    \A i \in Instances :
        LET alone == Alone(instances[i], instances[i].next - 1)
        IN  /\ instances[i].prs = alone.prs
            /\ instances[i].answer_counter = alone.answer_counter

\* both runs are under way and each has built an answer slide
C23_Witness ==
    \A i \in Instances :
        /\ MidRun(instances[i])
        /\ instances[i].answer_counter = 2
        /\ instances[i].prs /= <<>>

\* the run has chosen its path
HasPath(s) == sessions[s].at \in {"named", "written"}

(* C29: two runs executing at once with the same base name never write to  *)
(* the same output path: no run chooses or writes a path another run has   *)
(* chosen, and no save replaces the file of the other run.                 *)
C29_ConcurrentRunsDistinctPaths ==
    \A s, t \in Sessions :
        (s /= t /\ HasPath(s) /\ HasPath(t)) =>
            /\ sessions[s].output_file /= sessions[t].output_file
            /\ sessions[s].at = "written" => ~sessions[s].replaced

StepOrder == <<"extraction", "parsing", "generation">>

IsPrefix(a, b) == Len(a) <= Len(b) /\ a = SubSeq(b, 1, Len(a))

Ran(step) == \E k \in 1..Len(pipeline[1].log) : pipeline[1].log[k] = step

ExtractionSucceeded ==
    pipeline[1].extracted_text /= None /\ pipeline[1].extracted_text[1] /= <<>>
ParsingSucceeded ==
    pipeline[1].questions /= None /\ pipeline[1].questions[1] /= <<>>
WrotePptx == files /= pipeline[1].before

(* C30: in the integrated pipeline the steps run in the order extraction,  *)
(* parsing, generation, each at most once; no step runs after a failed     *)
(* one, so a PPTX file is written only after extraction and parsing both   *)
(* succeeded, and an empty parsed question list is a failure that writes   *)
(* no PPTX.                                                                *)
C30_StepsInOrderAndGated ==
    /\ IsPrefix(pipeline[1].log, StepOrder)
    /\ Ran("parsing") => ExtractionSucceeded
    /\ Ran("generation") => (ExtractionSucceeded /\ ParsingSucceeded)
    /\ WrotePptx =>
           (ExtractionSucceeded /\ ParsingSucceeded /\ Ran("generation"))
    /\ (Ran("parsing") /\ pipeline[1].questions = Some(<<>>)) =>
           (pipeline[1].at = "failed" /\ ~Ran("generation") /\ ~WrotePptx)
    /\ pipeline[1].at \in {"failed", "raised"} => ~WrotePptx

\* a run that went through all three steps and wrote its file
C30_Witness ==
    /\ pipeline[1].log = StepOrder
    /\ pipeline[1].at = "generated"
    /\ WrotePptx
    /\ pipeline[1].output_file[1] \in files

====
